---- MODULE Spec2Model ----
(***************************************************************************)
(* butler-ci-cli: the log streamer (src/commands/logs.ts, streamLogs) and  *)
(* the functions of utils/jenkinsFolder.ts (the recursive tree walker      *)
(* getAllJobsRecursive, getJobInfo, getBuilds, getWorkflowSteps) as state  *)
(* machines, one specification for each.  Every action is one continuation *)
(* of the async code: what runs from one resumed await up to the next      *)
(* suspension.                                                             *)
(***************************************************************************)
EXTENDS Integers, Sequences, FiniteSets, TLC

\* ------------------------------------------------------------------ bounds

\* chunk requests one stream may issue before the model stops exploring
MaxPolls == 3
\* largest value of the X-Text-Size header the server answers with
MaxSize == 2
\* SIGINT deliveries explored
MaxSigints == 2

\* ------------------------------------------------------------- JS values

\* JavaScript null / a missing header
Null == "<null>"
Absent == "<absent>"

\* `${v}` in a template literal: null prints as the text "null"
Template(v) == IF v = Null THEN "null" ELSE v

\* v || d for a string-or-null v
OrElse(v, d) == IF v = Null \/ v = "" THEN d ELSE v

VARIABLES
    \* ---- streamLogs (logs.ts:91-174)
    pc,             \* where the stream's single thread of control is suspended
    start,          \* let start: the cursor sent as ?start=
    isRunning,      \* let isRunning
    lastStatus,     \* let lastStatus
    result,         \* const result of the current iteration (ProgressiveLogResult)
    buildInfo,      \* const buildInfo of the current iteration
    sigintListener, \* whether sigintHandler is registered on process
    stdoutChunks,   \* the process.stdout.write calls, in order
    endReports,     \* end-of-stream lines printed (completion / user stop)
    statusLines,    \* "Estado: ..." lines printed
    errorsLogged,   \* logger.error calls made by the streaming catch
    chunkRequests,  \* getProgressiveBuildLogs calls issued
    infoRequests,   \* getBuildInfo calls issued
    waits,          \* setTimeout waits started
    nonEmptyChunks, \* chunk responses that carried text
    streamOutcome,  \* the promise streamLogs returned: pending/resolved/rejected
    processExited,  \* whether the process has ended
    exitCode,       \* the exit code it ended with (0 while it runs)
    sigints,        \* SIGINT signals delivered so far
    doneBy,         \* how the stream ended: none/complete/error/cancel/killed
    \* ---- getAllJobsRecursive (part_000:47-102)
    rootPath,       \* the path argument of the outermost call
    wpc,            \* idle / awaitList (a request is outstanding) / loop / done
    stack,          \* the active getAllJobsRecursive calls, outermost first
    outstanding,    \* the URLs of the list requests awaiting an answer
    served,         \* every answered list request, in order: the path of the
                    \* call that made it, its url, and the answer (kind, jobs)
    walkErrors,     \* logger.error calls made by the walker's catch
    walkOutcome,    \* the outermost call's promise: pending/resolved/rejected
    walkResult,     \* the array the outermost call resolved with
    \* ---- getJobInfo (part_000:115-125), called for two job names in turn
    jobNames,       \* the jobFullName argument of the first and the second call
    jpc,            \* idle / await (the GET is outstanding)
    jobRequests,    \* the URLs of the GET requests sent, in order
    jobOutcomes,    \* how each finished call ended: resolved / the Error thrown
    \* ---- getBuilds (part_000:451-517)
    buildsJob,      \* the jobFullName argument
    buildOptions,   \* the options argument
    bpc,            \* idle / await (the GET is outstanding) / done
    buildsRequests, \* the URLs of the GET requests sent
    buildsResponse, \* what the server answered: kind ok/nobuilds/fail, builds
    buildsOutcome,  \* the promise: pending / resolved / the Error thrown
    buildsResult,   \* the array it resolved with
    \* ---- getWorkflowSteps (part_000:552-633)
    buildExists,    \* server side: whether the build is there, so that its
                    \* basic metadata can be fetched
    spc,            \* idle / awaitDescribe / awaitBuild / done
    stagesRequests, \* the GET requests sent, in order: "describe", "build"
    describeAnswer, \* what wfapi/describe answered: kind stages/nostages/fail
    buildAnswer,    \* what the build's api/json answered: kind ok/fail, data
    stagesDebug,    \* logger.debug calls of the inner catch
    stagesOutcome,  \* the promise: pending / resolved / the Error thrown
    stagesResult,   \* the array it resolved with
    \* ---- getJobInfo, getLastBuild, getBuildInfo, getBuildLogs and
    \* ---- getProgressiveBuildLogs (part_000:115-158, 333-400), one call
    getterArgs,     \* the function called and its arguments
    gpc,            \* idle / await (the GET is outstanding) / done
    getterRequests, \* the URLs of the GET requests sent
    getterResponse, \* what the server answered: kind ok/fail, data, headers
    getterOutcome,  \* the promise: pending / resolved / the Error thrown
    getterValue,    \* the value it resolved with
    \* ---- the build on the server whose log streamLogs follows
    logText,        \* the console log written so far
    logOpen,        \* whether the build may still write to its log
    srvBuilding,    \* the building flag of the build
    hasMoreHonest,  \* no answer so far said "no more data" while the log was open
    \* ---- the abort command (part_002:11-108), one run
    abortArgs,      \* jobName, buildNumber and options.force
    apc,            \* idle / checkJob / prompt / abortCall / returned / exited
    jobCheck,       \* how the getJobInfo check went: none / ok / failed
    confirmAnswer,  \* the operator at the prompt: none / yes / no / rejected
    abortRequests,  \* the abortBuild calls made, as <<jobName, buildNumber>>
    abortLog,       \* what was logged, in order
    abortExit       \* the code of process.exit, Null when not called

streamVars == <<pc, start, isRunning, lastStatus, result, buildInfo,
                sigintListener, stdoutChunks, endReports, statusLines,
                errorsLogged, chunkRequests, infoRequests, waits,
                nonEmptyChunks, streamOutcome, processExited, exitCode, sigints,
                doneBy>>

walkVars == <<rootPath, wpc, stack, outstanding, served, walkErrors,
              walkOutcome, walkResult>>

jobVars == <<jobNames, jpc, jobRequests, jobOutcomes>>

buildsVars == <<buildsJob, buildOptions, bpc, buildsRequests, buildsResponse,
                buildsOutcome, buildsResult>>

stagesVars == <<buildExists, spc, stagesRequests, describeAnswer, buildAnswer,
                stagesDebug, stagesOutcome, stagesResult>>

getterVars == <<getterArgs, gpc, getterRequests, getterResponse, getterOutcome,
                getterValue>>

serverVars == <<logText, logOpen, srvBuilding, hasMoreHonest>>

abortVars == <<abortArgs, apc, jobCheck, confirmAnswer, abortRequests,
               abortLog, abortExit>>

vars == <<streamVars, walkVars, jobVars, buildsVars, stagesVars, getterVars,
          serverVars, abortVars>>

\* what the steps of one subsystem leave alone
otherThanStream ==
    <<walkVars, jobVars, buildsVars, stagesVars, getterVars,
      serverVars, abortVars>>
otherThanWalk ==
    <<streamVars, jobVars, buildsVars, stagesVars, getterVars,
      serverVars, abortVars>>
otherThanJob ==
    <<streamVars, walkVars, buildsVars, stagesVars, getterVars,
      serverVars, abortVars>>
otherThanBuilds ==
    <<streamVars, walkVars, jobVars, stagesVars, getterVars,
      serverVars, abortVars>>
\* the stream together with the build it follows
otherThanTail ==
    <<walkVars, jobVars, buildsVars, stagesVars, getterVars, abortVars>>
otherThanAbort ==
    <<streamVars, walkVars, jobVars, buildsVars, stagesVars, getterVars,
      serverVars>>
otherThanGetters ==
    <<streamVars, walkVars, jobVars, buildsVars, stagesVars,
      serverVars, abortVars>>
otherThanStages ==
    <<streamVars, walkVars, jobVars, buildsVars, getterVars,
      serverVars, abortVars>>

\* ------------------------------------------------ the remote build server

\* response.data of a progressiveText request: no text, or some text
ChunkTexts == {<<>>, <<"x">>}

\* X-Text-Size: missing (the empty string), or one decimal digit
TextSizeHeaders == {<<>>} \cup {<<d>> : d \in 0..MaxSize}

\* X-More-Data: missing, 'true', or anything else
MoreDataHeaders == {Absent, "true", "false"}

ChunkResponses ==
    [data : ChunkTexts, xTextSize : TextSizeHeaders, xMoreData : MoreDataHeaders]

\* BuildInfo.result / BuildInfo.building as the server may answer them
BuildResults == {Null, "SUCCESS", "FAILURE", "ABORTED"}

BuildInfos == [building : BOOLEAN, result : BuildResults]

\* ------------------------------------------------ getProgressiveBuildLogs

\* parseInt(digits, 10) of a string of decimal digits
RECURSIVE ParseInt(_)
ParseInt(digits) ==
    IF Len(digits) = 0 THEN 0
    ELSE 10 * ParseInt(SubSeq(digits, 1, Len(digits) - 1)) + digits[Len(digits)]

\* parseInt(response.headers['x-text-size'] || '0', 10)
ParseTextSize(h) == ParseInt(IF Len(h) = 0 THEN <<0>> ELSE h)

\* (mutant) more data unless the header says 'false'
ParseHasMoreUnlessFalse(h) == h # "false"

\* response.headers['x-more-data'] === 'true'
ParseHasMore(h) == h = "true"

\* the ProgressiveLogResult built from a successful response
ProgressiveLogResult(resp) ==
    [text    |-> resp.data,
     hasMore |-> ParseHasMore(resp.xMoreData),
     size    |-> ParseTextSize(resp.xTextSize)]

NoResult == [text |-> <<>>, hasMore |-> FALSE, size |-> 0]
NoBuildInfo == [building |-> FALSE, result |-> Null]

\* ------------------------------------------------------------- streamLogs

\* streamLogs not yet called
StreamIdle ==
    /\ pc = "start"
    /\ start = 0
    /\ isRunning = FALSE
    /\ lastStatus = ""
    /\ result = NoResult
    /\ buildInfo = NoBuildInfo
    /\ sigintListener = FALSE
    /\ stdoutChunks = <<>>
    /\ endReports = <<>>
    /\ statusLines = <<>>
    /\ errorsLogged = 0
    /\ chunkRequests = 0
    /\ infoRequests = 0
    /\ waits = 0
    /\ nonEmptyChunks = 0
    /\ streamOutcome = "pending"
    /\ processExited = FALSE
    /\ exitCode = 0
    /\ sigints = 0
    /\ doneBy = "none"

\* logs.ts:96-121: the locals, process.once('SIGINT', ...), the header, and the
\* first pass of while (isRunning) up to its first await
StreamStart ==
    /\ UNCHANGED otherThanStream
    /\ pc = "start"
    /\ start' = 0
    /\ isRunning' = TRUE
    /\ lastStatus' = ""
    /\ sigintListener' = TRUE
    /\ chunkRequests' = chunkRequests + 1
    /\ pc' = "awaitChunk"
    /\ UNCHANGED <<result, buildInfo, stdoutChunks, endReports, statusLines,
                   errorsLogged, infoRequests, waits, nonEmptyChunks,
                   streamOutcome, processExited, exitCode, sigints, doneBy>>

\* if (result.text && result.text.length > 0) process.stdout.write(result.text)
WriteChunk(out, text) == IF Len(text) > 0 THEN Append(out, text) ELSE out

\* (mutant) the cursor moved on by the length of the text received
NextStartByLength(cur, res) == cur + Len(res.text)

\* start = result.size (logs.ts:129)
NextStart(cur, res) == res.size

\* logs.ts:121-132: the chunk arrives, is written, the cursor moves, and the
\* build-info request is issued
ChunkHandled(resp) ==
    LET res == ProgressiveLogResult(resp) IN
    /\ result' = res
    /\ stdoutChunks' = WriteChunk(stdoutChunks, res.text)
    /\ nonEmptyChunks' = nonEmptyChunks + (IF Len(res.text) > 0 THEN 1 ELSE 0)
    /\ start' = NextStart(start, res)
    /\ infoRequests' = infoRequests + 1
    /\ pc' = "awaitInfo"
    /\ UNCHANGED <<isRunning, lastStatus, buildInfo, sigintListener, endReports,
                   statusLines, errorsLogged, chunkRequests, waits,
                   streamOutcome, processExited, exitCode, sigints, doneBy>>

\* the chunk request is answered, by a server that may answer anything
ChunkResponse ==
    /\ UNCHANGED otherThanStream
    /\ pc = "awaitChunk"
    /\ \E resp \in ChunkResponses : ChunkHandled(resp)

\* logs.ts:165-173: the inner catch logs the error and clears isRunning; the
\* while test then fails, finally removes the listener and streamLogs returns
\* normally
StreamCatch ==
    /\ errorsLogged' = errorsLogged + 1
    /\ isRunning' = FALSE
    /\ sigintListener' = FALSE
    /\ streamOutcome' = "resolved"
    /\ doneBy' = "error"
    /\ pc' = "returned"
    /\ UNCHANGED <<start, lastStatus, result, buildInfo, stdoutChunks, endReports,
                   statusLines, chunkRequests, infoRequests, waits,
                   nonEmptyChunks, processExited, exitCode, sigints>>

\* getProgressiveBuildLogs throws (part_000:397-399)
ChunkFails ==
    /\ UNCHANGED otherThanStream
    /\ pc = "awaitChunk"
    /\ StreamCatch

\* getBuildInfo throws (part_000:155-157)
InfoFails ==
    /\ UNCHANGED otherThanStream
    /\ pc = "awaitInfo"
    /\ StreamCatch

\* (mutant) the completion test that looks at the build alone
IsCompleteByBuildAlone(info, res) == ~info.building

\* (mutant) the completion test that looks at the chunk alone
IsCompleteByChunkAlone(info, res) == ~res.hasMore

\* (mutant) the completion test with || in place of &&
IsCompleteEither(info, res) == ~info.building \/ ~res.hasMore

\* if (!buildInfo.building && !result.hasMore)
IsComplete(info, res) == ~info.building /\ ~res.hasMore

\* the "Build completado con estado: ${buildInfo.result}" line
CompletionReport(info) == Template(info.result)

\* buildInfo.building ? 'RUNNING' : (buildInfo.result || 'UNKNOWN')
CurrentStatus(info) ==
    IF info.building THEN "RUNNING" ELSE OrElse(info.result, "UNKNOWN")

\* (mutant) the completion branch without its break: the report is printed
\* and the iteration runs on into the wait
StreamCompleteNoBreak(info) ==
    /\ isRunning' = FALSE
    /\ endReports' = Append(endReports, Template(info.result))
    /\ doneBy' = "complete"
    /\ waits' = waits + 1
    /\ pc' = "wait"
    /\ UNCHANGED <<lastStatus, statusLines, sigintListener, streamOutcome>>

\* logs.ts:134-150 and 170-173: completion report, break, finally, return
StreamComplete(info) ==
    /\ isRunning' = FALSE
    /\ endReports' = Append(endReports, CompletionReport(info))
    /\ sigintListener' = FALSE
    /\ streamOutcome' = "resolved"
    /\ doneBy' = "complete"
    /\ pc' = "returned"
    /\ UNCHANGED <<lastStatus, statusLines, waits>>

\* logs.ts:152-163: the status line when the status changed, then the wait
StreamKeepPolling(info) ==
    LET currentStatus == CurrentStatus(info) IN
    /\ statusLines' = IF currentStatus # lastStatus /\ lastStatus # ""
                      THEN Append(statusLines, currentStatus)
                      ELSE statusLines
    /\ lastStatus' = currentStatus
    /\ waits' = waits + 1
    /\ pc' = "wait"
    /\ UNCHANGED <<isRunning, endReports, sigintListener, streamOutcome, doneBy>>

\* logs.ts:132-163: the build info arrives
InfoHandled(info) ==
    /\ buildInfo' = info
    /\ IF IsComplete(info, result)
       THEN StreamComplete(info)
       ELSE StreamKeepPolling(info)
    /\ UNCHANGED <<start, result, stdoutChunks, errorsLogged, chunkRequests,
                   infoRequests, nonEmptyChunks, processExited, exitCode, sigints>>

\* the build-info request is answered, by a server that may answer anything
InfoResponse ==
    /\ UNCHANGED otherThanStream
    /\ pc = "awaitInfo"
    /\ \E info \in BuildInfos : InfoHandled(info)

\* logs.ts:163 then 118-121: the timer fires and while (isRunning) is tested:
\* the next chunk request is issued, or the loop is left through finally
TimerFires ==
    /\ UNCHANGED otherThanStream
    /\ pc = "wait"
    /\ IF isRunning
       THEN /\ chunkRequests < MaxPolls
            /\ chunkRequests' = chunkRequests + 1
            /\ pc' = "awaitChunk"
            /\ UNCHANGED <<sigintListener, streamOutcome>>
       ELSE /\ sigintListener' = FALSE
            /\ streamOutcome' = "resolved"
            /\ pc' = "returned"
            /\ UNCHANGED chunkRequests
    /\ UNCHANGED <<start, isRunning, lastStatus, result, buildInfo,
                   stdoutChunks, endReports, statusLines,
                   errorsLogged, infoRequests, waits, nonEmptyChunks,
                   processExited, exitCode, sigints, doneBy>>

\* logs.ts:42-43: await streamLogs(...) resolved, showLogs returns and the
\* process ends; a rejection would reach showLogs' catch (logs.ts:82-85)
ShowLogsReturn ==
    /\ UNCHANGED otherThanStream
    /\ pc = "returned"
    /\ processExited' = TRUE
    /\ exitCode' = IF streamOutcome = "rejected" THEN 1 ELSE 0
    /\ pc' = "exited"
    /\ UNCHANGED <<start, isRunning, lastStatus, result, buildInfo,
                   sigintListener, stdoutChunks, endReports, statusLines,
                   errorsLogged, chunkRequests, infoRequests, waits,
                   nonEmptyChunks, streamOutcome, sigints, doneBy>>

\* (mutant) a handler that only asks the loop to stop and leaves the process
\* running
SigintHandlerFlagOnly ==
    /\ endReports' = Append(endReports, "Streaming detenido por el usuario")
    /\ isRunning' = FALSE
    /\ sigintListener' = FALSE
    /\ doneBy' = "cancel"
    /\ UNCHANGED <<pc, start, lastStatus, result, buildInfo, stdoutChunks,
                   statusLines, errorsLogged, chunkRequests, infoRequests, waits,
                   nonEmptyChunks, streamOutcome, processExited, exitCode>>

\* logs.ts:101-105: sigintHandler prints the stop line and calls process.exit(0)
SigintHandler ==
    /\ endReports' = Append(endReports, "Streaming detenido por el usuario")
    /\ processExited' = TRUE
    /\ exitCode' = 0
    /\ sigintListener' = FALSE
    /\ doneBy' = "cancel"
    /\ pc' = "exited"
    /\ UNCHANGED <<start, isRunning, lastStatus, result, buildInfo, stdoutChunks,
                   statusLines, errorsLogged, chunkRequests, infoRequests, waits,
                   nonEmptyChunks, streamOutcome>>

\* SIGINT with no listener registered: the runtime's default disposition ends
\* the process (shell status 130)
SigintDefault ==
    /\ processExited' = TRUE
    /\ exitCode' = 130
    /\ pc' = "exited"
    /\ doneBy' = IF doneBy = "none" THEN "killed" ELSE doneBy
    /\ UNCHANGED <<start, isRunning, lastStatus, result, buildInfo,
                   sigintListener, stdoutChunks, endReports, statusLines,
                   errorsLogged, chunkRequests, infoRequests, waits,
                   nonEmptyChunks, streamOutcome>>

\* a signal sent to a process that has already exited reaches nothing
SigintIgnored ==
    UNCHANGED <<pc, start, isRunning, lastStatus, result, buildInfo,
                sigintListener, stdoutChunks, endReports, statusLines,
                errorsLogged, chunkRequests, infoRequests, waits,
                nonEmptyChunks, streamOutcome, processExited, exitCode, doneBy>>

\* the operator presses Ctrl+C: process.once('SIGINT', sigintHandler) at
\* logs.ts:108 decides what the signal runs
Sigint ==
    /\ UNCHANGED otherThanStream
    /\ sigints < MaxSigints
    /\ sigints' = sigints + 1
    /\ IF processExited THEN SigintIgnored
       ELSE IF sigintListener THEN SigintHandler
       ELSE SigintDefault

\* --------------------------------------------------------- paths and URLs

\* the characters job names are made of, and the path delimiter
Names == {"a", "b"}
Slash == "/"

\* index of the first delimiter of s, 0 when it has none
FirstSlash(s) ==
    IF \E i \in 1..Len(s) : s[i] = Slash
    THEN CHOOSE i \in 1..Len(s) :
            s[i] = Slash /\ \A j \in 1..(i - 1) : s[j] # Slash
    ELSE 0

\* s.split('/'): "" splits into [""]
RECURSIVE Split(_)
Split(s) ==
    IF FirstSlash(s) = 0 THEN <<s>>
    ELSE <<SubSeq(s, 1, FirstSlash(s) - 1)>>
            \o Split(SubSeq(s, FirstSlash(s) + 1, Len(s)))

\* the text "/job/"
JobMarker == <<"/", "j", "o", "b", "/">>

\* (mutant) replace with a string pattern: only the first delimiter
ReplaceFirstSlash(s) ==
    IF FirstSlash(s) = 0 THEN s
    ELSE SubSeq(s, 1, FirstSlash(s) - 1) \o JobMarker
            \o SubSeq(s, FirstSlash(s) + 1, Len(s))

\* path.replace(/\//g, '/job/')
RECURSIVE ReplaceSlashes(_)
ReplaceSlashes(s) ==
    IF Len(s) = 0 THEN <<>>
    ELSE (IF Head(s) = Slash THEN JobMarker ELSE <<Head(s)>>)
            \o ReplaceSlashes(Tail(s))

ApiJson == <<"/", "a", "p", "i", "/", "j", "s", "o", "n">>

\* buildApiUrl (part_000:74-76)
buildApiUrl(path) ==
    IF Len(path) > 0
    THEN JobMarker \o ReplaceSlashes(path) \o ApiJson
    ELSE ApiJson

\* ------------------------------------------------------------ the walker

\* how deep below the tree root the server still lists folders
MaxDepth == 2
\* items the server lists in the course of one walk
MaxNodes == 4

FolderClass == "com.cloudbees.hudson.plugins.folder.Folder"
MultiBranchClass ==
    "org.jenkinsci.plugins.workflow.multibranch.WorkflowMultiBranchProject"
FreeStyleClass == "hudson.model.FreeStyleProject"
\* a folder-like type of some plugin that the allow-list does not name
UnknownFolderClass == "com.example.plugins.CustomFolder"

\* part_000:164-169
folderClasses ==
    {"com.cloudbees.hudson.plugins.folder.Folder",
     "jenkins.branch.OrganizationFolder",
     "org.jenkinsci.plugins.workflow.multibranch.WorkflowMultiBranchProject",
     "hudson.model.Folder"}

\* (mutant) classification by the look of the type name instead of the list
isFolderByName(itemClass) == itemClass \in folderClasses \cup {UnknownFolderClass}

\* isFolder (part_000:163-172)
isFolder(itemClass) == itemClass \in folderClasses

\* fullName of processJenkinsItem (part_000:82)
ItemFullName(item, parentPath) ==
    IF Len(parentPath) > 0 THEN parentPath \o <<Slash>> \o item.name
    ELSE item.name

\* (mutant) the level taken from the split alone, without the root test
ItemLevelNoRootTest(parentPath) == Len(Split(parentPath))

\* level of processJenkinsItem (part_000:83)
ItemLevel(parentPath) ==
    IF Len(parentPath) > 0 THEN Len(Split(parentPath)) ELSE 0

\* currentItem of processJenkinsItem (part_000:85-92); url and color are
\* copied from the server's item unchanged and are left out
CurrentItem(item, parentPath) ==
    [name     |-> item.name,
     fullName |-> ItemFullName(item, parentPath),
     type     |-> IF isFolder(item.class) THEN "folder" ELSE "job",
     level    |-> ItemLevel(parentPath)]

NoItem == [name |-> <<>>, fullName |-> <<>>, type |-> "none", level |-> 0]

\* one active getAllJobsRecursive call: its path, the part of
\* response.data.jobs not yet processed, its items array, and the currentItem
\* of the processJenkinsItem call that is awaiting a nested walk
Frame(path) == [path |-> path, pending |-> <<>>, items |-> <<>>, current |-> NoItem]

\* the logical paths the outermost call is made with
RootPaths == {<<>>, <<"a">>}

\* what the server lists: item names are unique within one folder, and
\* folders are listed down to MaxDepth levels below the tree root
ItemClasses(path) ==
    IF (IF Len(path) = 0 THEN 0 ELSE Len(Split(path))) < MaxDepth
    THEN {FolderClass, UnknownFolderClass, FreeStyleClass}
    ELSE {FreeStyleClass}

\* items listed by the answers received so far
RECURSIVE ItemsIn(_)
ItemsIn(answers) ==
    IF Len(answers) = 0 THEN 0
    ELSE Len(Head(answers).jobs) + ItemsIn(Tail(answers))

\* the jobs arrays the server may answer a list request for `path` with
Listings(path) ==
    {l \in UNION {[1..k -> [name : {<<n>> : n \in Names}, class : ItemClasses(path)]]
                    : k \in 0..Cardinality(Names)} :
        /\ \A i, j \in DOMAIN l : i # j => l[i].name # l[j].name
        /\ ItemsIn(served) + Len(l) <= MaxNodes}

\* the walker idle, before the outermost call
WalkIdle ==
    /\ wpc = "idle"
    /\ stack = <<>>
    /\ outstanding = <<>>
    /\ served = <<>>
    /\ walkErrors = 0
    /\ walkOutcome = "pending"
    /\ walkResult = <<>>

\* part_000:47-52 of the outermost call: the list request for rootPath
WalkCall ==
    /\ UNCHANGED otherThanWalk
    /\ wpc = "idle"
    /\ stack' = <<Frame(rootPath)>>
    /\ outstanding' = <<buildApiUrl(rootPath)>>
    /\ wpc' = "awaitList"
    /\ UNCHANGED <<rootPath, served, walkErrors, walkOutcome, walkResult>>

\* a getAllJobsRecursive call returns `items`: to processJenkinsItem
\* (part_000:97-101) and on into the caller's items.push (part_000:60-61), or,
\* for the outermost call, to the caller of the walk
ReturnItems(items) ==
    IF Len(stack) = 1
    THEN /\ stack' = <<>>
         /\ walkResult' = items
         /\ walkOutcome' = "resolved"
         /\ wpc' = "done"
    ELSE LET parent == stack[Len(stack) - 1] IN
         /\ stack' = Append(SubSeq(stack, 1, Len(stack) - 2),
                            [parent EXCEPT !.items = @ \o <<parent.current>> \o items,
                                           !.current = NoItem])
         /\ wpc' = "loop"
         /\ UNCHANGED <<walkResult, walkOutcome>>

\* (mutant) a failed request that is not caught: the rejection unwinds every
\* caller and the walk fails
WalkThrow ==
    /\ stack' = <<>>
    /\ wpc' = "done"
    /\ walkOutcome' = "rejected"
    /\ UNCHANGED <<walkResult, walkErrors>>

\* part_000:65-68: the catch logs the error and returns []
WalkCatch ==
    /\ walkErrors' = walkErrors + 1
    /\ ReturnItems(<<>>)

\* the outstanding request of the innermost call is answered
Answered(kind, jobs) ==
    /\ served' = Append(served, [path |-> stack[Len(stack)].path,
                                 url  |-> outstanding[1],
                                 kind |-> kind,
                                 jobs |-> jobs])
    /\ outstanding' = <<>>

\* part_000:52-59: the list arrives with a jobs array
ListOk ==
    /\ UNCHANGED otherThanWalk
    /\ wpc = "awaitList"
    /\ \E l \in Listings(stack[Len(stack)].path) :
        /\ Answered("ok", l)
        /\ stack' = [stack EXCEPT ![Len(stack)].pending = l]
    /\ wpc' = "loop"
    /\ UNCHANGED <<rootPath, walkErrors, walkOutcome, walkResult>>

\* part_000:54-56: the answer carries no jobs field
ListNoJobs ==
    /\ UNCHANGED otherThanWalk
    /\ wpc = "awaitList"
    /\ Answered("nojobs", <<>>)
    /\ ReturnItems(<<>>)
    /\ UNCHANGED <<rootPath, walkErrors>>

\* part_000:52 throws
ListFails ==
    /\ UNCHANGED otherThanWalk
    /\ wpc = "awaitList"
    /\ Answered("fail", <<>>)
    /\ WalkCatch
    /\ UNCHANGED rootPath

\* (mutant) the folder's node is appended but the folder is not walked
DescendNever(frame, item, rest) ==
    /\ stack' = [stack EXCEPT ![Len(stack)] =
                    [frame EXCEPT !.pending = rest, !.items = Append(@, item)]]
    /\ UNCHANGED <<outstanding, wpc>>

\* (mutant) the nested walk started and not awaited: the loop goes on while
\* the request is out
DescendNoAwait(frame, item, rest) ==
    /\ stack' = [stack EXCEPT ![Len(stack)] =
                    [frame EXCEPT !.pending = rest, !.items = Append(@, item)]]
    /\ outstanding' = Append(outstanding, buildApiUrl(item.fullName))
    /\ UNCHANGED wpc

\* part_000:96-97: the nested getAllJobsRecursive(fullName) and its request
Descend(frame, item, rest) ==
    /\ stack' = Append(SubSeq(stack, 1, Len(stack) - 1),
                       [frame EXCEPT !.pending = rest, !.current = item])
                    \o <<Frame(item.fullName)>>
    /\ outstanding' = <<buildApiUrl(item.fullName)>>
    /\ wpc' = "awaitList"

\* part_000:59-61 with processJenkinsItem (81-101): the next item of the
\* loop; a folder starts the nested walk, anything else is pushed
ProcessItem ==
    /\ UNCHANGED otherThanWalk
    /\ wpc = "loop"
    /\ Len(stack[Len(stack)].pending) > 0
    /\ LET frame == stack[Len(stack)]
           item  == CurrentItem(Head(frame.pending), frame.path)
           rest  == Tail(frame.pending)
       IN IF isFolder(Head(frame.pending).class)
          THEN Descend(frame, item, rest)
          ELSE /\ stack' = [stack EXCEPT ![Len(stack)] =
                              [frame EXCEPT !.pending = rest,
                                            !.items = Append(@, item)]]
               /\ UNCHANGED <<outstanding, wpc>>
    /\ UNCHANGED <<rootPath, served, walkErrors, walkOutcome, walkResult>>

\* part_000:64: the loop is over, return items
FrameReturn ==
    /\ UNCHANGED otherThanWalk
    /\ wpc = "loop"
    /\ Len(stack[Len(stack)].pending) = 0
    /\ ReturnItems(stack[Len(stack)].items)
    /\ UNCHANGED <<rootPath, outstanding, served, walkErrors>>

WalkNext ==
    \/ WalkCall
    \/ ListOk
    \/ ListNoJobs
    \/ ListFails
    \/ ProcessItem
    \/ FrameReturn

\* ------------------------------------------------------------ getJobInfo

\* segments one job name may have
MaxSegments == 3

\* what stands between two delimiters of a job name the caller passes in: a
\* plain name, the name "job", or nothing at all
Segments == {<<"a">>, <<"j", "o", "b">>, <<>>}

\* segs.join('/')
RECURSIVE Join(_)
Join(segs) ==
    IF Len(segs) = 0 THEN <<>>
    ELSE IF Len(segs) = 1 THEN segs[1]
    ELSE segs[1] \o <<Slash>> \o Join(Tail(segs))

\* the job names a caller may pass: any text but the empty one
JobNames ==
    {Join(segs) : segs \in UNION {[1..n -> Segments] : n \in 1..MaxSegments}}
        \ {<<>>}

\* `/job/${jobPath}/api/json` of getJobInfo (part_000:119-120)
JobInfoUrl(jobFullName) == JobMarker \o ReplaceSlashes(jobFullName) \o ApiJson

\* the Error getJobInfo's catch throws: a plain Error whose message holds
\* the job name
JobInfoError(jobFullName) == [class |-> "Error", job |-> jobFullName]

JobIdle ==
    /\ jpc = "idle"
    /\ jobRequests = <<>>
    /\ jobOutcomes = <<>>

\* getJobInfo up to its await: builds the URL and sends the GET
JobInfoCall ==
    /\ UNCHANGED otherThanJob
    /\ jpc = "idle"
    /\ Len(jobRequests) < Len(jobNames)
    /\ jobRequests' = Append(jobRequests, JobInfoUrl(jobNames[Len(jobRequests) + 1]))
    /\ jpc' = "await"
    /\ UNCHANGED <<jobNames, jobOutcomes>>

\* the GET resolves: return response.data
JobInfoOk ==
    /\ UNCHANGED otherThanJob
    /\ jpc = "await"
    /\ jobOutcomes' = Append(jobOutcomes, [class |-> "resolved", job |-> <<>>])
    /\ jpc' = "idle"
    /\ UNCHANGED <<jobNames, jobRequests>>

\* the GET rejects: the catch throws its Error
JobInfoFails ==
    /\ UNCHANGED otherThanJob
    /\ jpc = "await"
    /\ jobOutcomes' = Append(jobOutcomes, JobInfoError(jobNames[Len(jobRequests)]))
    /\ jpc' = "idle"
    /\ UNCHANGED <<jobNames, jobRequests>>

JobNext ==
    \/ JobInfoCall
    \/ JobInfoOk
    \/ JobInfoFails

\* ------------------------------------------------------------- getBuilds

\* builds the server lists for one job
MaxBuilds == 2
\* const limit = options.limit || 50
DefaultLimit == 50

\* an optional field of an options object: <<>> when it is left out, <<v>>
\* when it is given
None == <<>>
Some(v) == <<v>>

\* o || d for an optional number / an optional string
NumOr(o, d) == IF o = None \/ o[1] = 0 THEN d ELSE o[1]
StrOr(o, d) == IF o = None \/ o[1] = "" THEN d ELSE o[1]

\* String.prototype.toUpperCase on the status texts a caller passes
ToUpperCase(s) ==
    CASE s = "success" -> "SUCCESS"
      [] s = "running" -> "RUNNING"
      [] OTHER -> s

\* the BuildListOptions a caller may pass (part_000:437-446); the dates are
\* given by their getTime()
BuildListOptions ==
    [status    : {None, Some("success"), Some("running")},
     branch    : {None, Some("main")},
     startDate : {None, Some(2)},
     endDate   : {None, Some(1)},
     offset    : {None, Some(1)},
     limit     : {None, Some(0), Some(1)},
     sortBy    : {None, Some("timestamp")},
     sortOrder : {None, Some("asc")}]

\* result and building of a listed build: finished, running, and running
\* with a result already set
BuildStates ==
    {[result |-> "SUCCESS", building |-> FALSE],
     [result |-> "FAILURE", building |-> FALSE],
     [result |-> Null, building |-> TRUE],
     [result |-> "FAILURE", building |-> TRUE]}

Timestamps == {1, 2}

\* response.data.builds: the server lists the newest build first
BuildLists ==
    UNION {{[i \in 1..n |-> [number    |-> n + 1 - i,
                             result    |-> st[i].result,
                             building  |-> st[i].building,
                             timestamp |-> ts[i]]] :
                st \in [1..n -> BuildStates], ts \in [1..n -> Timestamps]}
            : n \in 0..MaxBuilds}

\* the filter callback of part_000:474-479
StatusMatches(build, statusFilter) ==
    IF build.result = Null /\ statusFilter = "RUNNING"
    THEN build.building
    ELSE build.result = statusFilter

\* part_000:472-480
StatusFilter(builds, options) ==
    IF options.status # None /\ options.status[1] # ""
    THEN LET Keep(build) == StatusMatches(build, ToUpperCase(options.status[1]))
         IN  SelectSeq(builds, Keep)
    ELSE builds

\* (mutant) the bounds taken as exclusive
DateFilterStrict(builds, options) ==
    LET Keep(build) ==
            /\ options.startDate # None => build.timestamp > options.startDate[1]
            /\ options.endDate # None => build.timestamp < options.endDate[1]
    IN  SelectSeq(builds, Keep)

\* part_000:482-488
DateFilter(builds, options) ==
    LET AfterStart(build) ==
            options.startDate # None => build.timestamp >= options.startDate[1]
        BeforeEnd(build) ==
            options.endDate # None => build.timestamp <= options.endDate[1]
    IN  SelectSeq(SelectSeq(builds, AfterStart), BeforeEnd)

\* (mutant) a branch filter over builds that carry no branch
BranchFilterDropsAll(builds, options) ==
    IF options.branch # None THEN <<>> ELSE builds

\* part_000:490-492: options.branch is not read
BranchFilter(builds, options) == builds

\* the comparator of part_000:498-507
Compare(a, b, options) ==
    LET sortBy == StrOr(options.sortBy, "number")
        sortOrder == StrOr(options.sortOrder, "desc")
        aValue == IF sortBy = "number" THEN a.number ELSE a.timestamp
        bValue == IF sortBy = "number" THEN b.number ELSE b.timestamp
    IN  IF sortOrder = "asc" THEN aValue - bValue ELSE bValue - aValue

\* one insertion of a stable sort: b goes behind every element that does not
\* compare greater than it
Insert(sorted, b, options) ==
    LET k == Cardinality({i \in 1..Len(sorted) : Compare(sorted[i], b, options) <= 0})
    IN  SubSeq(sorted, 1, k) \o <<b>> \o SubSeq(sorted, k + 1, Len(sorted))

\* (mutant) the sort with the order option not read
SortDescending(builds, options) ==
    LET Pos(i) == Cardinality({j \in 1..Len(builds) :
                        \/ builds[j].number > builds[i].number
                        \/ j = i})
    IN  [p \in 1..Len(builds) |-> builds[CHOOSE i \in 1..Len(builds) : Pos(i) = p]]

\* builds.sort(comparator): Array.prototype.sort is stable
RECURSIVE SortBuilds(_, _)
SortBuilds(builds, options) ==
    IF Len(builds) = 0 THEN <<>>
    ELSE Insert(SortBuilds(SubSeq(builds, 1, Len(builds) - 1), options),
                builds[Len(builds)], options)

\* Array.prototype.slice(from, to) for 0 <= from
Slice(arr, from, to) ==
    SubSeq(arr, from + 1, IF to < Len(arr) THEN to ELSE Len(arr))

\* part_000:509-513
Paginate(builds, options) ==
    LET offset == NumOr(options.offset, 0)
        limit == NumOr(options.limit, DefaultLimit)
    IN  Slice(builds, offset, offset + limit)

\* what getBuilds returns for response.data.builds (part_000:469-513)
BuildsOf(builds, options) ==
    Paginate(SortBuilds(BranchFilter(DateFilter(StatusFilter(builds, options),
                                                options), options), options),
             options)

\* the request URL of part_000:458-462; the tree parameter is one token
BuildsUrl(jobFullName) ==
    JobMarker \o ReplaceSlashes(jobFullName) \o ApiJson \o <<"?", "tree=builds">>

BuildsError(jobFullName) == [class |-> "Error", job |-> jobFullName]
Resolved == [class |-> "resolved", job |-> <<>>]
Pending == [class |-> "pending", job |-> <<>>]
NoResponse == [kind |-> "none", builds |-> <<>>]

BuildsIdle ==
    /\ bpc = "idle"
    /\ buildsRequests = <<>>
    /\ buildsResponse = NoResponse
    /\ buildsOutcome = Pending
    /\ buildsResult = <<>>

\* getBuilds up to its await
GetBuildsCall ==
    /\ UNCHANGED otherThanBuilds
    /\ bpc = "idle"
    /\ buildsRequests' = Append(buildsRequests, BuildsUrl(buildsJob))
    /\ bpc' = "await"
    /\ UNCHANGED <<buildsJob, buildOptions, buildsResponse, buildsOutcome, buildsResult>>

\* the value getBuilds returns
BuildsReturn(value) ==
    /\ buildsOutcome' = Resolved
    /\ buildsResult' = value
    /\ bpc' = "done"
    /\ UNCHANGED <<buildsJob, buildOptions, buildsRequests>>

\* the GET resolves with a builds array: filter, sort, slice
BuildsOk ==
    /\ UNCHANGED otherThanBuilds
    /\ bpc = "await"
    /\ \E builds \in BuildLists :
        /\ buildsResponse' = [kind |-> "ok", builds |-> builds]
        /\ BuildsReturn(BuildsOf(builds, buildOptions))

\* the GET resolves without a builds field: return []
BuildsNoField ==
    /\ UNCHANGED otherThanBuilds
    /\ bpc = "await"
    /\ buildsResponse' = [kind |-> "nobuilds", builds |-> <<>>]
    /\ BuildsReturn(<<>>)

\* (mutant) a catch that returns the empty array
BuildsCatchEmpty ==
    /\ buildsOutcome' = Resolved
    /\ buildsResult' = <<>>

\* the catch of part_000:514-516
BuildsCatch ==
    /\ buildsOutcome' = BuildsError(buildsJob)
    /\ buildsResult' = buildsResult

\* the GET rejects
BuildsFails ==
    /\ UNCHANGED otherThanBuilds
    /\ bpc = "await"
    /\ buildsResponse' = [kind |-> "fail", builds |-> <<>>]
    /\ BuildsCatch
    /\ bpc' = "done"
    /\ UNCHANGED <<buildsJob, buildOptions, buildsRequests>>

BuildsNext ==
    \/ GetBuildsCall
    \/ BuildsOk
    \/ BuildsNoField
    \/ BuildsFails

\* ------------------------------------------------------ getWorkflowSteps

\* stages one describe answer lists
MaxStages == 2

\* the job and build getWorkflowSteps is called for
StagesJob == <<"a", "/", "b">>
StagesBuild == 7

\* a step of a described stage; ids and times are copied as they are and
\* are left out
DescribedSteps == [name : {"", "sh"}, status : {"SUCCESS"}]

\* stage.stageFlowNodes: no step, one step, or two different steps in
\* either order
StepLists ==
    {<<>>} \cup {<<st>> : st \in DescribedSteps}
        \cup {<<st, nd>> : <<st, nd>> \in {x \in DescribedSteps \X DescribedSteps :
                                            x[1] # x[2]}}

\* a described stage: stageFlowNodes may be missing
DescribedStages ==
    [name           : {"", "Compile"},
     status         : {"", "SUCCESS"},
     stageFlowNodes : {None} \cup {Some(l) : l \in StepLists}]

\* response.data.stages of wfapi/describe
StageLists == UNION {[1..n -> DescribedStages] : n \in 0..MaxStages}

\* the _class of the entries of buildData.actions, actions itself may be missing
FlowGraphAction == "org.jenkinsci.plugins.workflow.job.views.FlowGraphAction"
CauseAction == "hudson.model.CauseAction"
FlowExecutionListAction == "org.jenkinsci.plugins.workflow.flow.FlowExecutionList"
ActionLists ==
    {None, Some(<<CauseAction>>), Some(<<CauseAction, FlowGraphAction>>),
     Some(<<FlowExecutionListAction>>)}

\* buildResponse.data
BuildDatas ==
    [result : {Null, "SUCCESS"}, building : BOOLEAN, actions : ActionLists]

\* the step mapping of part_000:573-584
MapStep(step) ==
    [name   |-> OrElse(step.name, "Unknown"),
     status |-> OrElse(step.status, "UNKNOWN")]

\* (mutant) a stage mapping that leaves the steps out
MapStageNoSteps(stage) ==
    [name           |-> OrElse(stage.name, "Unknown"),
     status         |-> OrElse(stage.status, "UNKNOWN"),
     stageFlowNodes |-> <<>>]

\* the stage mapping of part_000:566-585
MapStage(stage) ==
    [name           |-> OrElse(stage.name, "Unknown"),
     status         |-> OrElse(stage.status, "UNKNOWN"),
     stageFlowNodes |->
        IF stage.stageFlowNodes = None THEN <<>>
        ELSE [i \in 1..Len(stage.stageFlowNodes[1]) |->
                    MapStep(stage.stageFlowNodes[1][i])]]

\* action._class?.includes('FlowGraphAction') ||
\* action._class?.includes('FlowExecutionList'), on the classes listed
HasFlowMarker(class) == class \in {FlowGraphAction, FlowExecutionListAction}

\* buildData.actions?.find(...) found an entry
ExecutionAction(buildData) ==
    /\ buildData.actions # None
    /\ \E i \in 1..Len(buildData.actions[1]) : HasFlowMarker(buildData.actions[1][i])

\* (mutant) a status that does not look at building
FallbackStatusFromResult(buildData) == OrElse(buildData.result, "UNKNOWN")

\* buildData.result || (buildData.building ? 'IN_PROGRESS' : 'UNKNOWN')
FallbackStatus(buildData) ==
    OrElse(buildData.result, IF buildData.building THEN "IN_PROGRESS" ELSE "UNKNOWN")

\* the single stage of part_000:606-627
FallbackStages(buildData) ==
    <<[name           |-> IF ExecutionAction(buildData)
                          THEN "Build Execution" ELSE "Build",
       status         |-> FallbackStatus(buildData),
       stageFlowNodes |-> <<>>]>>

StagesError == [class |-> "Error", job |-> StagesJob, build |-> StagesBuild]
NoAnswer == [kind |-> "none"]

StagesIdle ==
    /\ spc = "idle"
    /\ stagesRequests = <<>>
    /\ describeAnswer = NoAnswer
    /\ buildAnswer = NoAnswer
    /\ stagesDebug = 0
    /\ stagesOutcome = Pending
    /\ stagesResult = <<>>

\* getWorkflowSteps up to its first await: GET wfapi/describe
StagesCall ==
    /\ UNCHANGED otherThanStages
    /\ spc = "idle"
    /\ stagesRequests' = <<"describe">>
    /\ spc' = "awaitDescribe"
    /\ UNCHANGED <<buildExists, describeAnswer, buildAnswer, stagesDebug,
                   stagesOutcome, stagesResult>>

\* describe answers with a stages array (an empty array is truthy): return
\* the mapped stages
DescribeStages ==
    /\ UNCHANGED otherThanStages
    /\ spc = "awaitDescribe"
    /\ buildExists
    /\ \E stages \in StageLists :
        /\ describeAnswer' = [kind |-> "stages", stages |-> stages]
        /\ stagesResult' = [i \in 1..Len(stages) |-> MapStage(stages[i])]
    /\ stagesOutcome' = Resolved
    /\ spc' = "done"
    /\ UNCHANGED <<buildExists, stagesRequests, buildAnswer, stagesDebug>>

\* the second GET, for the build's api/json (part_000:594)
FetchBuild ==
    /\ stagesRequests' = Append(stagesRequests, "build")
    /\ spc' = "awaitBuild"
    /\ UNCHANGED <<buildExists, buildAnswer, stagesOutcome, stagesResult>>

\* describe answers without stages: fall through to the build's api/json
DescribeNoStages ==
    /\ UNCHANGED otherThanStages
    /\ spc = "awaitDescribe"
    /\ buildExists
    /\ describeAnswer' = [kind |-> "nostages"]
    /\ stagesDebug' = stagesDebug
    /\ FetchBuild

\* describe answers with a stages value that cannot be mapped (not an array,
\* or a null entry): the map throws inside the inner try, the inner catch
\* logs and the function goes on
DescribeMalformed ==
    /\ UNCHANGED otherThanStages
    /\ spc = "awaitDescribe"
    /\ buildExists
    /\ describeAnswer' = [kind |-> "malformed"]
    /\ stagesDebug' = stagesDebug + 1
    /\ FetchBuild

\* (mutant) a describe failure thrown on to the caller
DescribeFailsThrows ==
    /\ UNCHANGED otherThanStages
    /\ spc = "awaitDescribe"
    /\ describeAnswer' = [kind |-> "fail"]
    /\ stagesOutcome' = StagesError
    /\ spc' = "done"
    /\ UNCHANGED <<buildExists, stagesRequests, buildAnswer, stagesDebug,
                   stagesResult>>

\* describe rejects: the inner catch logs and the function goes on
DescribeFails ==
    /\ UNCHANGED otherThanStages
    /\ spc = "awaitDescribe"
    /\ describeAnswer' = [kind |-> "fail"]
    /\ stagesDebug' = stagesDebug + 1
    /\ FetchBuild

\* the build's api/json answers: return the single fallback stage
BuildDataOk ==
    /\ UNCHANGED otherThanStages
    /\ spc = "awaitBuild"
    /\ buildExists
    /\ \E buildData \in BuildDatas :
        /\ buildAnswer' = [kind |-> "ok", data |-> buildData]
        /\ stagesResult' = FallbackStages(buildData)
    /\ stagesOutcome' = Resolved
    /\ spc' = "done"
    /\ UNCHANGED <<buildExists, stagesRequests, describeAnswer, stagesDebug>>

\* the build's api/json rejects: the outer catch throws
BuildDataFails ==
    /\ UNCHANGED otherThanStages
    /\ spc = "awaitBuild"
    /\ ~buildExists
    /\ buildAnswer' = [kind |-> "fail"]
    /\ stagesOutcome' = StagesError
    /\ spc' = "done"
    /\ UNCHANGED <<buildExists, stagesRequests, describeAnswer, stagesDebug,
                   stagesResult>>

StagesNext ==
    \/ StagesCall
    \/ DescribeStages
    \/ DescribeNoStages
    \/ DescribeMalformed
    \/ DescribeFails
    \/ BuildDataOk
    \/ BuildDataFails

\* ---------------------------------------------- the single-request getters

\* the five functions that make one GET and return what it answered
Getters ==
    {"getJobInfo", "getLastBuild", "getBuildInfo", "getBuildLogs",
     "getProgressiveBuildLogs"}

\* those that take a build number
TakesBuild(op) == op \in {"getBuildInfo", "getBuildLogs", "getProgressiveBuildLogs"}

\* the calls made: a job name, a build number where the function takes one,
\* and for getProgressiveBuildLogs a start that may be left out
GetterCalls ==
    {c \in [op    : Getters,
            job   : {<<"a">>, <<"a", "/", "b">>},
            build : {None, Some(7)},
            start : {None} \cup {Some(n) : n \in 0..MaxSize}] :
        /\ c.build # None <=> TakesBuild(c.op)
        /\ c.start # None => c.op = "getProgressiveBuildLogs"}

\* start: number = 0
StartOf(call) == IF call.start = None THEN 0 ELSE call.start[1]

\* what follows `/job/${jobPath}` in the endpoint of each function
\* (part_000:120, 135, 153, 341, 378); numbers and query strings are one token
EndpointTail(call) ==
    CASE call.op = "getJobInfo" -> ApiJson
      [] call.op = "getLastBuild" -> <<"/", "lastBuild">> \o ApiJson
      [] call.op = "getBuildInfo" ->
            <<"/", call.build[1]>> \o ApiJson \o <<"?", "tree=number,...">>
      [] call.op = "getBuildLogs" -> <<"/", call.build[1], "/", "consoleText">>
      [] call.op = "getProgressiveBuildLogs" ->
            <<"/", call.build[1], "/", "logText", "/", "progressiveText",
              "?", "start=", StartOf(call)>>

GetterUrl(call) == JobMarker \o ReplaceSlashes(call.job) \o EndpointTail(call)

\* response.data of the JSON getters, opaque to them
JsonDatas == {"job-or-build-json"}

\* X-Text-Size and X-More-Data as a progressiveText answer may carry them:
\* also a size of two digits and a differently spelled 'true'
ProgressiveResponses ==
    [data      : ChunkTexts,
     xTextSize : TextSizeHeaders \cup {<<1, 0>>},
     xMoreData : MoreDataHeaders \cup {"TRUE"}]

\* the successful answers to a call
GetterAnswers(call) ==
    CASE call.op \in {"getJobInfo", "getLastBuild"} ->
            {[kind |-> "ok", data |-> d] : d \in JsonDatas}
      [] call.op = "getBuildInfo" ->
            {[kind |-> "ok", data |-> d] : d \in BuildInfos}
      [] call.op = "getBuildLogs" ->
            {[kind |-> "ok", data |-> d] : d \in ChunkTexts}
      [] call.op = "getProgressiveBuildLogs" ->
            {[kind |-> "ok", data |-> d] : d \in ProgressiveResponses}

\* what each function returns for an answer: response.data, or the
\* ProgressiveLogResult made of it (part_000:121, 136, 154, 350, 391-395)
GetterReturn(call, answer) ==
    IF call.op = "getProgressiveBuildLogs"
    THEN [kind |-> "value", data |-> ProgressiveLogResult(answer.data)]
    ELSE [kind |-> "value", data |-> answer.data]

\* the Error each catch throws: its message holds the job name and, for the
\* functions that take one, the build number (part_000:123, 138, 156, 352, 398)
GetterError(call) ==
    [class |-> "Error", op |-> call.op, job |-> call.job, build |-> call.build]

NoValue == [kind |-> "none"]

GettersIdle ==
    /\ gpc = "idle"
    /\ getterRequests = <<>>
    /\ getterResponse = NoAnswer
    /\ getterOutcome = Pending
    /\ getterValue = NoValue

\* the function up to its await
GetterCall ==
    /\ UNCHANGED otherThanGetters
    /\ gpc = "idle"
    /\ getterRequests' = Append(getterRequests, GetterUrl(getterArgs))
    /\ gpc' = "await"
    /\ UNCHANGED <<getterArgs, getterResponse, getterOutcome, getterValue>>

\* the GET resolves: the function returns
GetterOk ==
    /\ UNCHANGED otherThanGetters
    /\ gpc = "await"
    /\ \E answer \in GetterAnswers(getterArgs) :
        /\ getterResponse' = answer
        /\ getterValue' = GetterReturn(getterArgs, answer)
    /\ getterOutcome' = Resolved
    /\ gpc' = "done"
    /\ UNCHANGED <<getterArgs, getterRequests>>

\* (mutant) a catch that returns an empty default
GetterCatchDefault ==
    /\ getterOutcome' = Resolved
    /\ getterValue' = [kind |-> "value", data |-> <<>>]

\* the catch of each function: throw new Error(...)
GetterCatch ==
    /\ getterOutcome' = GetterError(getterArgs)
    /\ getterValue' = getterValue

\* the GET rejects
GetterFails ==
    /\ UNCHANGED otherThanGetters
    /\ gpc = "await"
    /\ getterResponse' = [kind |-> "fail"]
    /\ GetterCatch
    /\ gpc' = "done"
    /\ UNCHANGED <<getterArgs, getterRequests>>

GettersNext ==
    \/ GetterCall
    \/ GetterOk
    \/ GetterFails

\* ------------------------------------- the stream and the build it follows

\* characters the build writes to its log before the model stops exploring
MaxLog == 2

\* the text a build writes, character by character
LogChars == <<"p", "q", "r", "s", "t", "u">>

\* the log when n characters have been written
LogOfLength(n) == SubSeq(LogChars, 1, n)

\* the answer to a progressiveText request with ?start=`from`: the log text
\* from there on and the log's size; what X-More-Data says is up to the server
ServerChunk(from, more) ==
    [data      |-> SubSeq(logText, from + 1, Len(logText)),
     xTextSize |-> <<Len(logText)>>,
     xMoreData |-> more]

\* the answer to a build-info request: a build that has stopped has a result
ServerBuildInfo ==
    [building |-> srvBuilding,
     result   |-> IF srvBuilding THEN Null ELSE "SUCCESS"]

\* the build writes one more character to its log
BuildWrites ==
    /\ UNCHANGED <<otherThanTail, streamVars>>
    /\ logOpen
    /\ Len(logText) < MaxLog
    /\ logText' = LogOfLength(Len(logText) + 1)
    /\ UNCHANGED <<logOpen, srvBuilding, hasMoreHonest>>

\* the build stops building
BuildStops ==
    /\ UNCHANGED <<otherThanTail, streamVars>>
    /\ srvBuilding
    /\ srvBuilding' = FALSE
    /\ UNCHANGED <<logText, logOpen, hasMoreHonest>>

\* the stopped build's log is closed: nothing is written any more
LogCloses ==
    /\ UNCHANGED <<otherThanTail, streamVars>>
    /\ ~srvBuilding
    /\ logOpen
    /\ logOpen' = FALSE
    /\ UNCHANGED <<logText, srvBuilding, hasMoreHonest>>

\* the chunk request is answered from the log as it is now
TailChunkResponse ==
    /\ UNCHANGED otherThanTail
    /\ pc = "awaitChunk"
    /\ \E more \in MoreDataHeaders :
        /\ ChunkHandled(ServerChunk(start, more))
        /\ hasMoreHonest' = (hasMoreHonest /\ (ParseHasMore(more) \/ ~logOpen))
    /\ UNCHANGED <<logText, logOpen, srvBuilding>>

\* the build-info request is answered from the build as it is now
TailInfoResponse ==
    /\ UNCHANGED otherThanTail
    /\ pc = "awaitInfo"
    /\ InfoHandled(ServerBuildInfo)
    /\ UNCHANGED serverVars

TailNext ==
    \/ StreamStart
    \/ TailChunkResponse
    \/ TailInfoResponse
    \/ ChunkFails
    \/ InfoFails
    \/ TimerFires
    \/ ShowLogsReturn
    \/ BuildWrites
    \/ BuildStops
    \/ LogCloses

\* ------------------------------------------------------ the abort command

\* the jobs and build numbers the command is run for
AbortJobs == {<<"a">>, <<"a", "/", "b">>}
AbortBuildNumbers == {"7", "8"}

\* options.force: absent, true or false
AbortCalls ==
    [job : AbortJobs, build : AbortBuildNumbers,
     force : {None, Some(TRUE), Some(FALSE)}]

\* !options.force is false
ForceSet(options) == options.force = Some(TRUE)

\* message.includes(word), a message being its words
Includes(message, word) == \E i \in 1..Len(message) : message[i] = word

\* what abortBuild resolves with: the build was stopped, the build had already
\* finished, it could not be stopped for another reason
AbortResults ==
    { [success |-> TRUE,  message |-> <<"abortado">>],
      [success |-> FALSE, message |-> <<"ya", "completado">>],
      [success |-> FALSE, message |-> <<"no", "abortable">>] }

\* the messages of the errors abortBuild and the prompt reject with
AbortErrors ==
    { <<"404">>, <<"build", "no encontrado">>, <<"sin", "permisos">>,
      <<"403">>, <<"timeout">> }

AbortIdle ==
    /\ apc = "idle"
    /\ jobCheck = "none"
    /\ confirmAnswer = "none"
    /\ abortRequests = <<>>
    /\ abortLog = <<>>
    /\ abortExit = Null

\* abort(jobName, buildNumber, options) runs up to await getJobInfo(jobName)
AbortStart ==
    /\ UNCHANGED otherThanAbort
    /\ apc = "idle"
    /\ abortLog' = Append(abortLog, "abortingBuild")
    /\ apc' = "checkJob"
    /\ UNCHANGED <<abortArgs, jobCheck, confirmAnswer, abortRequests, abortExit>>

\* logger.info(checkingBuildStatus); await abortBuild(jobName, buildNumber)
CallAbortBuild ==
    /\ abortLog' = Append(abortLog, "checkingBuildStatus")
    /\ abortRequests' = Append(abortRequests, <<abortArgs.job, abortArgs.build>>)
    /\ apc' = "abortCall"
    /\ UNCHANGED abortExit

\* the job exists: with force the abort is requested, without it the operator
\* is asked
JobCheckOk ==
    /\ UNCHANGED otherThanAbort
    /\ apc = "checkJob"
    /\ jobCheck' = "ok"
    /\ IF ForceSet(abortArgs)
       THEN CallAbortBuild
       ELSE /\ apc' = "prompt"
            /\ UNCHANGED <<abortRequests, abortLog, abortExit>>
    /\ UNCHANGED <<abortArgs, confirmAnswer>>

\* (mutant) a failed job check that logs and goes on as if the job existed
JobCheckFailsGoesOn ==
    /\ UNCHANGED otherThanAbort
    /\ apc = "checkJob"
    /\ jobCheck' = "failed"
    /\ abortLog' = Append(abortLog, "jobNotFound")
    /\ apc' = "prompt"
    /\ UNCHANGED <<abortArgs, confirmAnswer, abortRequests, abortExit>>

\* getJobInfo threw: logger.error(jobNotFound); process.exit(1)
JobCheckFails ==
    /\ UNCHANGED otherThanAbort
    /\ apc = "checkJob"
    /\ jobCheck' = "failed"
    /\ abortLog' = Append(abortLog, "jobNotFound")
    /\ abortExit' = 1
    /\ apc' = "exited"
    /\ UNCHANGED <<abortArgs, confirmAnswer, abortRequests>>

\* the operator answers yes
PromptYes ==
    /\ UNCHANGED otherThanAbort
    /\ apc = "prompt"
    /\ confirmAnswer' = "yes"
    /\ CallAbortBuild
    /\ UNCHANGED <<abortArgs, jobCheck>>

\* the operator answers no (the default): logger.warn(abortCancelled); return
PromptNo ==
    /\ UNCHANGED otherThanAbort
    /\ apc = "prompt"
    /\ confirmAnswer' = "no"
    /\ abortLog' = Append(abortLog, "abortCancelled")
    /\ apc' = "returned"
    /\ UNCHANGED <<abortArgs, jobCheck, abortRequests, abortExit>>

\* the outer catch: the error is logged, with a tip for some messages, and the
\* process exits with 1
AbortCatch(message) ==
    /\ abortLog' = abortLog \o <<"error">> \o
          (IF Includes(message, "404") \/ Includes(message, "no encontrado")
           THEN <<"tipBuildNumber">>
           ELSE IF Includes(message, "permisos") \/ Includes(message, "403")
                THEN <<"tipPermissions">>
                ELSE <<>>)
    /\ abortExit' = 1
    /\ apc' = "exited"

\* inquirer.prompt rejects
PromptFails ==
    /\ UNCHANGED otherThanAbort
    /\ apc = "prompt"
    /\ confirmAnswer' = "rejected"
    /\ \E message \in AbortErrors : AbortCatch(message)
    /\ UNCHANGED <<abortArgs, jobCheck, abortRequests>>

\* what is logged for the result abortBuild resolved with
ResultLog(res) ==
    IF res.success
    THEN <<"success", "tipAborted", "tipVerify">>
    ELSE <<"warning">> \o
         (IF Includes(res.message, "completado")
          THEN <<"tipOnlyRunning", "tipVerify">>
          ELSE <<>>)

\* abortBuild resolves
AbortAnswered ==
    /\ UNCHANGED otherThanAbort
    /\ apc = "abortCall"
    /\ \E res \in AbortResults : abortLog' = abortLog \o ResultLog(res)
    /\ apc' = "returned"
    /\ UNCHANGED <<abortArgs, jobCheck, confirmAnswer, abortRequests, abortExit>>

\* abortBuild rejects
AbortFails ==
    /\ UNCHANGED otherThanAbort
    /\ apc = "abortCall"
    /\ \E message \in AbortErrors : AbortCatch(message)
    /\ UNCHANGED <<abortArgs, jobCheck, confirmAnswer, abortRequests>>

AbortNext ==
    \/ AbortStart
    \/ JobCheckOk
    \/ JobCheckFails
    \/ PromptYes
    \/ PromptNo
    \/ PromptFails
    \/ AbortAnswered
    \/ AbortFails

AbortQuiet == AbortIdle /\ abortArgs = <<>>

\* ------------------------------------------------------ the specifications

\* a subsystem that is not the one being run stays in its initial state
WalkQuiet == WalkIdle /\ rootPath = <<>>
JobQuiet == JobIdle /\ jobNames = <<>>
BuildsQuiet ==
    /\ BuildsIdle
    /\ buildsJob = <<>>
    /\ buildOptions = <<>>

StagesQuiet == StagesIdle /\ buildExists = FALSE
GettersQuiet == GettersIdle /\ getterArgs = <<>>
ServerQuiet ==
    /\ logText = <<>>
    /\ logOpen = FALSE
    /\ srvBuilding = FALSE
    /\ hasMoreHonest = TRUE

StreamInit ==
    /\ WalkQuiet /\ JobQuiet /\ BuildsQuiet /\ StagesQuiet /\ GettersQuiet
    /\ ServerQuiet /\ AbortQuiet
    /\ StreamIdle

WalkInit ==
    /\ StreamIdle /\ JobQuiet /\ BuildsQuiet /\ StagesQuiet /\ GettersQuiet
    /\ ServerQuiet /\ AbortQuiet
    /\ WalkIdle
    /\ rootPath \in RootPaths

JobInit ==
    /\ StreamIdle /\ WalkQuiet /\ BuildsQuiet /\ StagesQuiet /\ GettersQuiet
    /\ ServerQuiet /\ AbortQuiet
    /\ JobIdle
    /\ jobNames \in JobNames \X JobNames

\* the job names getBuilds is called with
BuildsJobs == {<<"a", "/", "b">>}

BuildsInit ==
    /\ StreamIdle /\ WalkQuiet /\ JobQuiet /\ StagesQuiet /\ GettersQuiet
    /\ ServerQuiet /\ AbortQuiet
    /\ BuildsIdle
    /\ buildsJob \in BuildsJobs
    /\ buildOptions \in BuildListOptions

BuildsSpec == BuildsInit /\ [][BuildsNext]_vars

StagesInit ==
    /\ StreamIdle /\ WalkQuiet /\ JobQuiet /\ BuildsQuiet /\ GettersQuiet
    /\ ServerQuiet /\ AbortQuiet
    /\ StagesIdle
    /\ buildExists \in BOOLEAN

StagesSpec == StagesInit /\ [][StagesNext]_vars

JobSpec == JobInit /\ [][JobNext]_vars

GettersInit ==
    /\ StreamIdle /\ WalkQuiet /\ JobQuiet /\ BuildsQuiet /\ StagesQuiet
    /\ ServerQuiet /\ AbortQuiet
    /\ GettersIdle
    /\ getterArgs \in GetterCalls

GettersSpec == GettersInit /\ [][GettersNext]_vars

AbortInit ==
    /\ StreamIdle /\ WalkQuiet /\ JobQuiet /\ BuildsQuiet /\ StagesQuiet
    /\ GettersQuiet /\ ServerQuiet
    /\ AbortIdle
    /\ abortArgs \in AbortCalls

AbortSpec == AbortInit /\ [][AbortNext]_vars

\* the stream is started for a build that is running or has already stopped
TailInit ==
    /\ WalkQuiet /\ JobQuiet /\ BuildsQuiet /\ StagesQuiet /\ GettersQuiet
    /\ AbortQuiet
    /\ StreamIdle
    /\ logText \in {LogOfLength(n) : n \in 0..MaxLog}
    /\ srvBuilding \in BOOLEAN
    /\ logOpen \in BOOLEAN
    /\ srvBuilding => logOpen
    /\ hasMoreHonest = TRUE

TailSpec == TailInit /\ [][TailNext]_vars

\* the same under the scheduling the runtime gives: the command starts the
\* stream, a request that is outstanding is answered or fails, a timer that
\* was set fires, and showLogs goes on once streamLogs has settled
TailFairSpec ==
    /\ TailSpec
    /\ WF_vars(StreamStart)
    /\ WF_vars(TailChunkResponse \/ ChunkFails)
    /\ WF_vars(TailInfoResponse \/ InfoFails)
    /\ WF_vars(TimerFires)
    /\ WF_vars(ShowLogsReturn)

WalkSpec == WalkInit /\ [][WalkNext]_vars

StreamNext ==
    \/ StreamStart
    \/ ChunkResponse
    \/ ChunkFails
    \/ InfoResponse
    \/ InfoFails
    \/ TimerFires
    \/ ShowLogsReturn
    \/ Sigint

StreamSpec == StreamInit /\ [][StreamNext]_vars

\* ------------------------------------------------ properties of the stream

\* the stream is between its first request and its return
StreamRunning == pc \in {"awaitChunk", "awaitInfo", "wait"}

\* the stream has reached Done
StreamDone == doneBy \in {"complete", "error", "cancel"}

\* a step in which a build-info response is handled
InfoArrives ==
    /\ pc = "awaitInfo"
    /\ pc' # "awaitInfo"
    /\ errorsLogged' = errorsLogged
    /\ sigints' = sigints

\* C1: the loop completes normally only on a build-info response with
\* building=false that follows, in the same iteration, a chunk response with
\* hasMore=false; on every other build-info response it starts the wait, and
\* when the wait ends it issues the next chunk request.
C1_DoneNeedsBothConditions ==
    [][ /\ (doneBy # "complete" /\ doneBy' = "complete")
            => (InfoArrives /\ ~buildInfo'.building /\ ~result.hasMore
                /\ result' = result)
        /\ (InfoArrives /\ (buildInfo'.building \/ result.hasMore))
            => (pc' = "wait" /\ waits' = waits + 1 /\ doneBy' = "none"
                /\ isRunning')
        /\ (pc = "wait" /\ pc' # "wait" /\ sigints' = sigints)
            => (pc' = "awaitChunk" /\ chunkRequests' = chunkRequests + 1) ]_vars

\* C1 witness: a normal completion reached after an iteration that kept polling
C1_Witness ==
    doneBy = "complete" /\ waits >= 1 /\ chunkRequests >= 2

\* C2 (as claimed): a chunk response whose size is below the cursor never
\* lowers the cursor and is never followed by the build-info request of a
\* continuing iteration.
C2_SmallerSizeIsRejected ==
    [][ /\ start' >= start
        /\ ~(pc = "awaitChunk" /\ pc' = "awaitInfo" /\ result'.size < start) ]_vars

\* C3: from the step that completes the stream normally onwards, no chunk
\* request, build-info request, wait or chunk write happens; at completion
\* every chunk request has been answered and every non-empty chunk was
\* written exactly once (two responses with text: two requests, two chunks).
C3_NothingAfterCompletion ==
    /\ [][ doneBy' = "complete"
            => UNCHANGED <<chunkRequests, infoRequests, waits, stdoutChunks>> ]_vars
    /\ [](doneBy = "complete"
            => /\ chunkRequests = infoRequests
               /\ Len(stdoutChunks) = nonEmptyChunks
               /\ ~StreamRunning)

\* C3 witness: completion on the second of two chunk responses that both
\* carried text
C3_Witness ==
    /\ doneBy = "complete"
    /\ chunkRequests = 2
    /\ nonEmptyChunks = 2
    /\ Len(stdoutChunks) = 2

\* C4: a SIGINT delivered while the stream runs (awaiting a chunk, awaiting
\* the build info, or in the wait) ends the process at once with exit code 0
\* and no error; no request or wait is started in that step or after it.
C4_CancelStopsWithoutError ==
    /\ [][ (StreamRunning /\ sigints' # sigints)
            => /\ processExited' /\ exitCode' = 0
               /\ pc' = "exited" /\ doneBy' = "cancel"
               /\ streamOutcome' # "rejected"
               /\ errorsLogged' = errorsLogged
               /\ UNCHANGED <<chunkRequests, infoRequests, waits>> ]_vars
    /\ [][ doneBy = "cancel"
            => UNCHANGED <<chunkRequests, infoRequests, waits, stdoutChunks,
                           exitCode, errorsLogged>> ]_vars

\* C4 witness: cancelled in the middle of a wait (the timer started last never
\* fired)
C4_Witness ==
    /\ doneBy = "cancel"
    /\ processExited
    /\ waits >= 1
    /\ waits = chunkRequests

\* C5 (as claimed): a stream ended by a failed request has ended, its
\* operation ended with an error outcome, and the chunks written stay written.
C5_FailureSurfacesToCaller ==
    doneBy = "error"
        => /\ ~StreamRunning
           /\ streamOutcome = "rejected"
           /\ Len(stdoutChunks) = nonEmptyChunks

\* C6 (as claimed): a stream that reached Done has printed exactly one
\* end-of-stream event, carrying the build's result, or "unknown" when the
\* result is null.
C6_DoneReportsResultOrUnknown ==
    StreamDone
        => /\ Len(endReports) = 1
           /\ IF buildInfo.result = Null
              THEN endReports[1] \in {"unknown", "UNKNOWN"}
              ELSE endReports[1] = buildInfo.result

\* C7: once one SIGINT has been delivered, a further SIGINT changes nothing:
\* no request, no wait, no output, no end-of-stream line, no change of the
\* exit code or of the stream's outcome.
C7_RepeatedCancelIsNoOp ==
    [][ (sigints >= 1 /\ sigints' # sigints)
        => UNCHANGED <<pc, start, isRunning, lastStatus, result, buildInfo,
                       sigintListener, stdoutChunks, endReports, statusLines,
                       errorsLogged, chunkRequests, infoRequests, waits,
                       nonEmptyChunks, streamOutcome, processExited, exitCode,
                       doneBy>> ]_vars

\* C7 witness: a second SIGINT after the one that cancelled the stream
C7_Witness ==
    sigints = 2 /\ doneBy = "cancel" /\ exitCode = 0 /\ Len(endReports) = 1

\* ------------------------------------------------ properties of the walk

WalkDone == wpc = "done"

\* p followed by the delimiter is a proper prefix of q: q lies below folder p
Below(p, q) ==
    /\ Len(q) > Len(p) + 1
    /\ SubSeq(q, 1, Len(p) + 1) = p \o <<Slash>>

\* the name `name` under the parent path p
JoinPath(p, name) == IF p = <<>> THEN name ELSE p \o <<Slash>> \o name

\* the number of segments of a logical path: none for the root, else one more
\* than it has delimiters
SegmentCount(p) ==
    IF p = <<>> THEN 0
    ELSE 1 + Cardinality({i \in 1..Len(p) : p[i] = Slash})

\* positions of the result holding the node with this full name
PositionsOf(fullName) ==
    {i \in 1..Len(walkResult) : walkResult[i].fullName = fullName}

\* every item of every answered listing is a node of the result, with its type
AllListedAppear ==
    \A k \in 1..Len(served) : \A j \in 1..Len(served[k].jobs) :
        \E i \in PositionsOf(JoinPath(served[k].path, served[k].jobs[j].name)) :
            /\ walkResult[i].name = served[k].jobs[j].name
            /\ walkResult[i].type =
                 (IF served[k].jobs[j].class \in folderClasses THEN "folder" ELSE "job")

\* the root and every folder node of the result had its list request made,
\* exactly once, for its own URL
AllFoldersWalked ==
    /\ Len(served) >= 1
    /\ served[1].path = rootPath
    /\ \A i \in 1..Len(walkResult) :
        walkResult[i].type = "folder"
            => Cardinality({k \in 1..Len(served) :
                    /\ served[k].path = walkResult[i].fullName
                    /\ served[k].url = buildApiUrl(walkResult[i].fullName)}) = 1

\* C8: the result holds every item of every listing reached from rootPath
\* through recognized folders exactly once, in depth-first pre-order: the
\* children of one listing in the listed order, and the nodes below a folder
\* as one contiguous block right after the folder.
C8_PreOrderComplete ==
    WalkDone =>
        /\ AllListedAppear
        /\ AllFoldersWalked
        /\ Len(walkResult) = ItemsIn(served)
        /\ \A i, j \in 1..Len(walkResult) :
              i # j => walkResult[i].fullName # walkResult[j].fullName
        /\ \A k \in 1..Len(served) : \A j1, j2 \in 1..Len(served[k].jobs) :
              j1 < j2 =>
                \A i1 \in PositionsOf(JoinPath(served[k].path, served[k].jobs[j1].name)) :
                \A i2 \in PositionsOf(JoinPath(served[k].path, served[k].jobs[j2].name)) :
                    i1 < i2
        /\ \A i \in 1..Len(walkResult) :
              LET below == {j \in 1..Len(walkResult) :
                              Below(walkResult[i].fullName, walkResult[j].fullName)}
              IN below = (i + 1)..(i + Cardinality(below))

\* C8 witness: a folder holding two jobs, followed by a sibling job
C8_Witness ==
    /\ WalkDone
    /\ Len(walkResult) = 4
    /\ walkResult[1].type = "folder" /\ walkResult[1].level = 0
    /\ walkResult[2].type = "job" /\ walkResult[2].level = 1
    /\ walkResult[3].type = "job" /\ walkResult[3].level = 1
    /\ walkResult[4].type = "job" /\ walkResult[4].level = 0

\* C9: a failed list request never fails the walk.  When the root request
\* failed the result is empty; when a folder's request failed the result
\* still holds the folder's node, no node below it, and every item of every
\* listing that was answered (its siblings, each folder among them walked).
C9_FailedFolderIsEmptySubtree ==
    WalkDone =>
        /\ walkOutcome = "resolved"
        /\ AllListedAppear
        /\ AllFoldersWalked
        /\ \A k \in 1..Len(served) :
              served[k].kind = "fail" =>
                IF served[k].path = rootPath
                THEN walkResult = <<>>
                ELSE /\ \E i \in PositionsOf(served[k].path) :
                            walkResult[i].type = "folder"
                     /\ \A j \in 1..Len(walkResult) :
                            ~Below(served[k].path, walkResult[j].fullName)

\* C9 witness: a folder whose request failed, with a sibling before it and a
\* sibling after it in the result
C9_Witness ==
    /\ WalkDone
    /\ \E k \in 1..Len(served) :
        /\ served[k].kind = "fail"
        /\ served[k].path # rootPath
        /\ \E i \in PositionsOf(served[k].path) : 1 < i /\ i < Len(walkResult)

\* C10: every node of the result was listed under some walked path p: its
\* fullName is p joined with its name by the delimiter, and its level is the
\* number of segments of p (0 under the tree root).
C10_LevelAndFullName ==
    WalkDone =>
        \A i \in 1..Len(walkResult) :
            \E k \in 1..Len(served) : \E j \in 1..Len(served[k].jobs) :
                /\ served[k].jobs[j].name = walkResult[i].name
                /\ walkResult[i].fullName = JoinPath(served[k].path, walkResult[i].name)
                /\ walkResult[i].level = SegmentCount(served[k].path)

\* C10 witness: a result with nodes at levels 0, 1 and 2
C10_Witness ==
    /\ WalkDone
    /\ \A d \in 0..2 : \E i \in 1..Len(walkResult) : walkResult[i].level = d

\* the type identifiers a listed item may carry
KnownItemClasses ==
    folderClasses \cup {FreeStyleClass, UnknownFolderClass, MultiBranchClass}

\* the type identifiers under which answered listings hold an item at `path`
ListedClassOf(path) ==
    {served[m].jobs[j].class :
        <<m, j>> \in {x \in (1..Len(served)) \X (1..Cardinality(Names)) :
                        /\ x[2] <= Len(served[x[1]].jobs)
                        /\ JoinPath(served[x[1]].path, served[x[1]].jobs[x[2]].name) = path}}

\* C11: an item is typed folder exactly when its type identifier is one of
\* the four allow-listed identifiers, any other identifier is typed job, and
\* a list request below the root is made only for an item whose identifier
\* is allow-listed.
C11_FolderOnlyByAllowList ==
    /\ \A c \in KnownItemClasses :
          isFolder(c) <=> c \in {"com.cloudbees.hudson.plugins.folder.Folder",
                                 "jenkins.branch.OrganizationFolder",
                                 "org.jenkinsci.plugins.workflow.multibranch.WorkflowMultiBranchProject",
                                 "hudson.model.Folder"}
    /\ \A n \in 1..Len(stack) : \A i \in 1..Len(stack[n].items) :
          stack[n].items[i].type \in {"folder", "job"}
    /\ \A k \in 1..Len(served) : \A j \in 1..Len(served[k].jobs) :
          \A i \in PositionsOf(JoinPath(served[k].path, served[k].jobs[j].name)) :
              walkResult[i].type = "folder" <=> isFolder(served[k].jobs[j].class)
    /\ \A k \in 2..Len(served) :
          /\ ListedClassOf(served[k].path) # {}
          /\ ListedClassOf(served[k].path) \subseteq folderClasses
    /\ (wpc = "awaitList" /\ Len(stack) > 1)
          => /\ ListedClassOf(stack[Len(stack)].path) # {}
             /\ ListedClassOf(stack[Len(stack)].path) \subseteq folderClasses

\* C11 witness: a finished walk that listed an allow-listed folder and an item
\* of an unlisted folder-like type, the first walked and the second typed job
C11_Witness ==
    /\ WalkDone
    /\ Len(served) = 2
    /\ \E i, j \in 1..Len(walkResult) :
        /\ walkResult[i].type = "folder"
        /\ walkResult[j].type = "job"
        /\ ListedClassOf(walkResult[j].fullName) = {UnknownFolderClass}

\* ------------------------------------------------ properties of the URLs

\* the segments of a job name, and whether none of them is empty
SegmentsOf(name) == Split(name)
WellFormed(name) ==
    LET segs == SegmentsOf(name)
    IN  \A i \in 1..Len(segs) : Len(segs[i]) > 0

\* the components of a URL between its leading "/" and its "api/json" tail
UrlBody(url) ==
    LET parts == Split(url)
    IN  SubSeq(parts, 2, Len(parts) - 2)

\* the "job" markers among the components: those at the odd positions
MarkerCount(body) ==
    Cardinality({i \in 1..Len(body) : i % 2 = 1 /\ body[i] = <<"j", "o", "b">>})

\* the segments read back from the components: those at the even positions
DecodeSegments(body) == [i \in 1..(Len(body) \div 2) |-> body[2 * i]]

\* C12: for a job name of N non-empty segments the URL sent holds exactly N
\* "job" markers, one before each segment, the segments read back from the
\* URL are the original ones, and two different segment sequences never
\* give the same URL; buildApiUrl gives the same URL as getJobInfo.
C12_UrlRoundTrip ==
    /\ \A i \in 1..Len(jobRequests) :
          LET segs == SegmentsOf(jobNames[i])
              body == UrlBody(jobRequests[i])
          IN  (\A k \in 1..Len(segs) : Len(segs[k]) > 0) =>
                  /\ jobRequests[i] = buildApiUrl(jobNames[i])
                  /\ Len(body) = 2 * Len(segs)
                  /\ MarkerCount(body) = Len(segs)
                  /\ DecodeSegments(body) = segs
    /\ (/\ Len(jobRequests) = 2
        /\ jobNames[1] # jobNames[2]
        /\ WellFormed(jobNames[1])
        /\ WellFormed(jobNames[2]))
          => jobRequests[1] # jobRequests[2]

\* C12 witness: both requests are sent, for two different well-formed names
\* of several segments, one of them holding a segment that is named "job"
C12_Witness ==
    /\ Len(jobRequests) = 2
    /\ WellFormed(jobNames[1]) /\ WellFormed(jobNames[2])
    /\ jobNames[1] # jobNames[2]
    /\ Len(SegmentsOf(jobNames[1])) = MaxSegments
    /\ Len(SegmentsOf(jobNames[2])) > 1
    /\ \E i \in 1..MaxSegments : SegmentsOf(jobNames[1])[i] = <<"j", "o", "b">>

\* C13: a job name with an empty segment never has a URL built and a request
\* sent for it, and the call made with it ends with an InvalidPathError.
C13_EmptySegmentIsRejected ==
    /\ \A i \in 1..Len(jobRequests) : WellFormed(jobNames[i])
    /\ \A i \in 1..Len(jobOutcomes) :
          ~WellFormed(jobNames[i]) => jobOutcomes[i].class = "InvalidPathError"

\* ---------------------------------------------- properties of getBuilds

\* getBuilds resolved with what it made of a builds array
BuildsListed == buildsResponse.kind = "ok" /\ buildsOutcome = Resolved

\* whether a build matches a status, as the contract words it: RUNNING looks
\* at building alone, any other status at the result, both ignoring case
MatchesStatus(build, status) ==
    IF ToUpperCase(status) = "RUNNING"
    THEN build.building
    ELSE build.result # Null /\ ToUpperCase(build.result) = ToUpperCase(status)

\* C14: with a status filter getBuilds returns exactly the fetched builds
\* that match it (and pass the other filters, sorted and sliced): for RUNNING
\* the builds with building = true whatever their result, for any other
\* status the builds whose result equals it ignoring case.
C14_StatusFilterExact ==
    (BuildsListed /\ buildOptions.status # None) =>
        LET Keep(build) == MatchesStatus(build, buildOptions.status[1])
            matching == SelectSeq(buildsResponse.builds, Keep)
        IN  buildsResult =
                Paginate(SortBuilds(BranchFilter(DateFilter(matching, buildOptions),
                                                 buildOptions), buildOptions),
                         buildOptions)

\* the filtered and sorted sequence the slice is taken from
FilteredSorted ==
    SortBuilds(BranchFilter(DateFilter(StatusFilter(buildsResponse.builds,
                                                    buildOptions),
                                       buildOptions), buildOptions), buildOptions)

\* C15: getBuilds returns positions offset .. offset+limit-1 of the filtered,
\* sorted sequence for every offset >= 0 and limit >= 0, never more than limit
\* elements, the empty sequence when offset is at or beyond the length; a
\* missing offset is 0 and a missing limit is 50.
C15_SliceByOffsetAndLimit ==
    BuildsListed =>
        LET offset == IF buildOptions.offset = None THEN 0 ELSE buildOptions.offset[1]
            limit == IF buildOptions.limit = None THEN 50 ELSE buildOptions.limit[1]
            rest == Len(FilteredSorted) - offset
            n == IF rest < 0 THEN 0 ELSE IF rest < limit THEN rest ELSE limit
        IN  /\ Len(buildsResult) <= limit
            /\ buildsResult = [i \in 1..n |-> FilteredSorted[offset + i]]

\* the sort key of a build under the options given, and whether the order
\* asked for is ascending
SortKey(build) ==
    IF buildOptions.sortBy = Some("timestamp") THEN build.timestamp ELSE build.number
Ascending == buildOptions.sortOrder = Some("asc")

\* where the server listed a build
ServerPosition(build) ==
    CHOOSE k \in 1..Len(buildsResponse.builds) :
        buildsResponse.builds[k].number = build.number

\* C16: the returned sequence is ordered by the sort key chosen (number unless
\* timestamp is asked for) in the order chosen (descending unless ascending is
\* asked for), and builds of equal key keep the order the server listed them in.
C16_SortedAndStable ==
    BuildsListed =>
        \A i, j \in 1..Len(buildsResult) :
            i < j =>
                /\ Ascending => SortKey(buildsResult[i]) <= SortKey(buildsResult[j])
                /\ ~Ascending => SortKey(buildsResult[i]) >= SortKey(buildsResult[j])
                /\ SortKey(buildsResult[i]) = SortKey(buildsResult[j])
                      => ServerPosition(buildsResult[i]) < ServerPosition(buildsResult[j])

\* C16 witness: two builds of the same timestamp returned under an ascending
\* sort by timestamp
C16_Witness ==
    /\ BuildsListed
    /\ buildOptions.sortBy = Some("timestamp")
    /\ Ascending
    /\ Len(buildsResult) = 2
    /\ buildsResult[1].timestamp = buildsResult[2].timestamp

\* a timestamp lies within the bounds given, both inclusive
WithinDates(build) ==
    /\ buildOptions.startDate # None => build.timestamp >= buildOptions.startDate[1]
    /\ buildOptions.endDate # None => build.timestamp <= buildOptions.endDate[1]

\* C17: with a start time exactly the builds of timestamp >= start are kept,
\* with an end time exactly those of timestamp <= end; a build whose timestamp
\* equals a bound is kept.
C17_DateBoundsInclusive ==
    BuildsListed =>
        /\ \A i \in 1..Len(buildsResult) : WithinDates(buildsResult[i])
        /\ buildsResult =
              Paginate(SortBuilds(BranchFilter(
                  SelectSeq(StatusFilter(buildsResponse.builds, buildOptions),
                            WithinDates), buildOptions), buildOptions), buildOptions)

\* C17 witness: a start time is given, a build stamped exactly with it is
\* returned and an older fetched build is not
C17_Witness ==
    /\ BuildsListed
    /\ buildOptions.startDate # None
    /\ \E i \in 1..Len(buildsResult) :
          buildsResult[i].timestamp = buildOptions.startDate[1]
    /\ \E k \in 1..Len(buildsResponse.builds) :
          buildsResponse.builds[k].timestamp < buildOptions.startDate[1]

\* C18: a branch value never makes getBuilds fail and never changes what it
\* returns: the result is the one the same options without branch give.
C18_BranchHasNoEffect ==
    /\ buildsResponse.kind \in {"ok", "nobuilds"} => buildsOutcome = Resolved
    /\ BuildsListed =>
          buildsResult = BuildsOf(buildsResponse.builds,
                                  [buildOptions EXCEPT !.branch = None])

\* C18 witness: a call with a branch value that returned builds
C18_Witness ==
    /\ BuildsListed
    /\ buildOptions.branch = Some("main")
    /\ Len(buildsResult) > 0

\* C19: when the build-list request fails getBuilds fails with an error that
\* names the job, and when the job has no builds it returns the empty
\* sequence without error.
C19_FailureNamesJobEmptyIsFine ==
    /\ buildsResponse.kind = "fail" =>
          /\ buildsOutcome.class = "Error"
          /\ buildsOutcome.job = buildsJob
    /\ (\/ buildsResponse.kind = "nobuilds"
        \/ buildsResponse.kind = "ok" /\ buildsResponse.builds = <<>>) =>
          /\ buildsOutcome = Resolved
          /\ buildsResult = <<>>

\* C19 witness: the request has failed and the call has ended
C19_Witness ==
    /\ bpc = "done"
    /\ buildsResponse.kind = "fail"
    /\ buildsOutcome.job = <<"a", "/", "b">>

\* ----------------------------------------- properties of getWorkflowSteps

\* C20: for a build that exists getWorkflowSteps never fails and never
\* returns an empty sequence, whatever wfapi/describe answers, an answer
\* with an empty stage list included.
C20_AtLeastOneStage ==
    (spc = "done" /\ buildExists) =>
        /\ stagesOutcome = Resolved
        /\ Len(stagesResult) >= 1

\* getWorkflowSteps has returned or thrown
StagesDone == spc = "done"

\* the action list of the build data holds a flow-execution marker
FlowMarked(buildData) ==
    /\ buildData.actions # None
    /\ \E i \in 1..Len(buildData.actions[1]) :
          buildData.actions[1][i] \in
              {"org.jenkinsci.plugins.workflow.job.views.FlowGraphAction",
               "org.jenkinsci.plugins.workflow.flow.FlowExecutionList"}

\* C21: when wfapi/describe fails and the build's metadata is fetched, the
\* result is exactly one stage without steps, named "Build Execution" when
\* the action list holds a flow-execution marker and "Build" otherwise, with
\* the build's result as status when there is one and IN_PROGRESS when there
\* is none and the build is building.
C21_FallbackSingleStage ==
    (StagesDone /\ describeAnswer.kind = "fail" /\ buildAnswer.kind = "ok") =>
        /\ stagesOutcome = Resolved
        /\ Len(stagesResult) = 1
        /\ stagesResult[1].stageFlowNodes = <<>>
        /\ stagesResult[1].name =
              IF FlowMarked(buildAnswer.data) THEN "Build Execution" ELSE "Build"
        /\ buildAnswer.data.result # Null
              => stagesResult[1].status = buildAnswer.data.result
        /\ (buildAnswer.data.result = Null /\ buildAnswer.data.building)
              => stagesResult[1].status = "IN_PROGRESS"

\* C21 witness: describe failed and a running build with a flow marker gave
\* the stage "Build Execution"
C21_Witness ==
    /\ StagesDone
    /\ describeAnswer.kind = "fail"
    /\ buildAnswer.kind = "ok"
    /\ FlowMarked(buildAnswer.data)
    /\ buildAnswer.data.result = Null
    /\ buildAnswer.data.building
    /\ Len(stagesResult) = 1

\* C22: getWorkflowSteps fails exactly when the fetch of the build's metadata
\* was attempted and failed; a failure of wfapi/describe is not passed on and
\* is always followed by that fetch, and the fetch is never made once
\* describe has returned stages.
C22_OnlyFallbackFailureSurfaces ==
    /\ stagesOutcome.class = "Error" <=> buildAnswer.kind = "fail"
    /\ buildAnswer.kind # "none" => stagesRequests = <<"describe", "build">>
    /\ describeAnswer.kind \in {"fail", "malformed"} =>
          /\ stagesRequests = <<"describe", "build">>
          /\ stagesOutcome.class = "Error" => buildAnswer.kind = "fail"
    /\ describeAnswer.kind = "stages" =>
          /\ stagesRequests = <<"describe">>
          /\ stagesOutcome = Resolved

\* C22 witness: describe failed, the metadata fetch failed too, and the call
\* ended with the error
C22_Witness ==
    /\ StagesDone
    /\ describeAnswer.kind = "fail"
    /\ buildAnswer.kind = "fail"
    /\ stagesOutcome = StagesError

\* the steps the server described for a stage
StepsOf(stage) ==
    IF stage.stageFlowNodes = None THEN <<>> ELSE stage.stageFlowNodes[1]

\* describe answered with a stage list and getWorkflowSteps has returned
StagesDescribed == StagesDone /\ describeAnswer.kind = "stages"

NameOrUnknown(name) == IF name = "" THEN "Unknown" ELSE name
StatusOrUnknown(status) == IF status = "" THEN "UNKNOWN" ELSE status

C24_GettersPropagateFailure ==
    getterResponse.kind = "fail" =>
        /\ getterOutcome.class = "Error"
        /\ getterOutcome.job = getterArgs.job
        /\ getterArgs.build # None => getterOutcome.build = getterArgs.build
        /\ getterValue = NoValue

\* C24 witness: getBuildInfo was called for a job in a folder and its request
\* failed
C24_Witness ==
    /\ gpc = "done"
    /\ getterArgs.op = "getBuildInfo"
    /\ getterArgs.job = <<"a", "/", "b">>
    /\ getterResponse.kind = "fail"
    /\ getterOutcome.class = "Error"

\* the number a header of decimal digits stands for
RECURSIVE DecimalValue(_)
DecimalValue(digits) ==
    IF Len(digits) = 0 THEN 0
    ELSE Head(digits) * 10 ^ (Len(digits) - 1) + DecimalValue(Tail(digits))

\* getProgressiveBuildLogs has returned a result
ProgressiveReturned ==
    /\ getterArgs.op = "getProgressiveBuildLogs"
    /\ getterResponse.kind = "ok"
    /\ getterOutcome = Resolved

\* C26: getProgressiveBuildLogs returns the response text as text, the
\* integer of the X-Text-Size header as size (0 when the header is missing),
\* and hasMore true exactly when the X-More-Data header is 'true'.
C26_ProgressiveResultFromHeaders ==
    ProgressiveReturned =>
        /\ getterValue.data.text = getterResponse.data.data
        /\ getterValue.data.size = DecimalValue(getterResponse.data.xTextSize)
        /\ getterValue.data.hasMore <=> getterResponse.data.xMoreData \in {"true"}

\* C26 witness: a result made of a two-digit size and a header that is not
\* exactly 'true'
C26_Witness ==
    /\ ProgressiveReturned
    /\ Len(getterResponse.data.xTextSize) = 2
    /\ getterValue.data.size = 10
    /\ getterResponse.data.xMoreData = "TRUE"
    /\ ~getterValue.data.hasMore

\* ---------------------------------- further properties of the stream

\* a chunk response is handled in this step
ChunkArrives == pc = "awaitChunk" /\ pc' = "awaitInfo"

\* C25: the first chunk request is sent with offset 0 and each later one with
\* the size the chunk response before it reported; the text of a response is
\* written when the response is handled, behind the texts written before and
\* before the next request goes out, and an empty text writes nothing.
C25_OffsetsFollowSizesWritesInOrder ==
    [][/\ chunkRequests' # chunkRequests =>
            /\ chunkRequests' = chunkRequests + 1
            /\ start' = IF chunkRequests = 0 THEN 0 ELSE result'.size
            /\ stdoutChunks' = stdoutChunks
       /\ ChunkArrives =>
            /\ chunkRequests' = chunkRequests
            /\ stdoutChunks' =
                  IF result'.text = <<>> THEN stdoutChunks
                  ELSE stdoutChunks \o <<result'.text>>
       /\ ~ChunkArrives => stdoutChunks' = stdoutChunks]_vars

\* C25 witness: the third chunk request is out with the offset the second
\* response reported, and of the two responses one had text and one had none
C25_Witness ==
    /\ pc = "awaitChunk"
    /\ chunkRequests = 3
    /\ start = result.size
    /\ start > 0
    /\ Len(stdoutChunks) = 1

\* ------------------------------------ further properties of the walk

\* the answered listing of a path, and whether a request for a path was answered
ListingOf(path) == served[CHOOSE k \in 1..Len(served) : served[k].path = path].jobs
WasServed(path) == \E k \in 1..Len(served) : served[k].path = path

\* the nested call n was started by the item at this place of its parent's listing
PlaceInParent(n) == Len(ListingOf(stack[n - 1].path)) - Len(stack[n - 1].pending)

\* C27: at most one list request is outstanding at any moment; the request
\* for a folder's children goes out only when the folder's node has been
\* made; a nested walk runs only when the subtrees of all earlier siblings
\* are complete and no later sibling has been requested; and the requests
\* are answered in the order in which their folders stand in the result.
C27_RequestsStrictlySequential ==
    /\ Len(outstanding) <= 1
    /\ Len(outstanding) = 1 <=> wpc = "awaitList"
    /\ \A n \in 2..Len(stack) :
        LET parent == stack[n - 1]
            listing == ListingOf(parent.path)
            place == PlaceInParent(n)
        IN  /\ parent.current.type = "folder"
            /\ parent.current.fullName = stack[n].path
            /\ parent.current.fullName = ItemFullName(listing[place], parent.path)
            /\ \A i \in 1..(place - 1) :
                  /\ \E m \in 1..Len(parent.items) :
                        parent.items[m].fullName = ItemFullName(listing[i], parent.path)
                  /\ isFolder(listing[i].class)
                        => WasServed(ItemFullName(listing[i], parent.path))
            /\ \A i \in (place + 1)..Len(listing) :
                  ~WasServed(ItemFullName(listing[i], parent.path))
    /\ WalkDone =>
          \A k, m \in 2..Len(served) :
              k < m => \A i \in PositionsOf(served[k].path) :
                          \A j \in PositionsOf(served[m].path) : i < j

\* C27 witness: the request for the second of two sibling folders is out, the
\* first one's has been answered and its node and children are in the items
C27_Witness ==
    /\ wpc = "awaitList"
    /\ Len(stack) = 2
    /\ PlaceInParent(2) = 2
    /\ isFolder(ListingOf(stack[1].path)[1].class)
    /\ Len(stack[1].items) > 1

\* ------------------------- properties of the stream and the build's log

\* the texts written to the output, one after the other
RECURSIVE Concat(_)
Concat(chunks) ==
    IF Len(chunks) = 0 THEN <<>> ELSE Head(chunks) \o Concat(Tail(chunks))

\* the stream completes in this step
CompletesNow == doneBy # "complete" /\ doneBy' = "complete"

\* C28 as stated: the log only grows and every chunk answer carries the log
\* text from the requested offset up to the reported size; then at the moment
\* the stream completes, the texts written make up the build's whole log,
\* nothing missing and nothing twice.
C28_CompleteLogEmitted ==
    [][CompletesNow => Concat(stdoutChunks') = logText']_vars

\* C28 amended: the same, for a server that also answers "no more data" only
\* when the build's log is closed.
C28_CompleteLogEmittedIfHasMoreHonest ==
    [][(CompletesNow /\ hasMoreHonest') =>
            /\ Concat(stdoutChunks') = logText'
            /\ ~logOpen']_vars

\* C28 witness: the stream has completed after two chunks with text, the
\* second one written by the build while the stream was running
C28_Witness ==
    /\ doneBy = "complete"
    /\ hasMoreHonest
    /\ Len(stdoutChunks) = 2
    /\ Concat(stdoutChunks) = LogOfLength(MaxLog)

\* from the last request the model follows, at the latest, the build has
\* stopped building and the server answers chunk requests with hasMore=false
SettledByLastPoll ==
    chunkRequests = MaxPolls =>
        /\ ~srvBuilding
        /\ pc = "awaitInfo" => ~result.hasMore

\* C29: when the build stops building, the server from then on answers chunk
\* requests with hasMore=false and no request fails, the stream eventually
\* completes; and it never completes while the build is still building.
C29_CompletesOnceBuildSettles ==
    /\ ([]SettledByLastPoll /\ [](doneBy # "error")) => <>(doneBy = "complete")
    /\ [](doneBy = "complete" => ~srvBuilding)

\* C29 witness: the stream completed on the last request, after iterations
\* that found the build still building or more data pending, with no failure
C29_Witness ==
    /\ doneBy = "complete"
    /\ chunkRequests = MaxPolls
    /\ waits = MaxPolls - 1
    /\ errorsLogged = 0

\* ------------------------------------------ properties of the abort command

\* C30: abortBuild is called at most once, and only after the getJobInfo check
\* succeeded and either force is set or the operator answered yes; when the
\* check fails or the operator declines it is never called.
C30_AbortOnlyWhenCheckedAndConfirmed ==
    /\ Len(abortRequests) <= 1
    /\ abortRequests # <<>> =>
          /\ jobCheck = "ok"
          /\ ForceSet(abortArgs) \/ confirmAnswer = "yes"
          /\ abortRequests[1] = <<abortArgs.job, abortArgs.build>>
    /\ (jobCheck = "failed" \/ confirmAnswer = "no") => abortRequests = <<>>
    /\ (jobCheck = "failed" \/ confirmAnswer = "no") =>
          apc \in {"returned", "exited"}

\* C30 witness: without force the operator said yes and the one abort request
\* was made and answered
C30_Witness ==
    /\ ~ForceSet(abortArgs)
    /\ confirmAnswer = "yes"
    /\ Len(abortRequests) = 1
    /\ apc = "returned"

====
